---- MODULE Spec2Model ----
(***************************************************************************)
(* parse_tallies.main(): the scan of the solver report tallies.out, the    *)
(* per-quantity output files it writes, and the two post-passes (strip the *)
(* first line and terminate the last one, then sort the lines).            *)
(*                                                                         *)
(* A Python str is modelled as a sequence of one-character strings, so     *)
(* that `in`, split(), splitlines(True), sorted() and '%.6e' are computed  *)
(* on characters as the interpreter computes them.                         *)
(***************************************************************************)
EXTENDS Naturals, Integers, Sequences, FiniteSets, TLC

----------------------------------------------------------------------------
(* Text primitives *)

\* The characters that occur in reports and output files, in ascending
\* code point order: sorted() compares str values code point by code point.
Alphabet ==
  << "\n", " ", "(", ")", "+", ",", "-", ".", "/",
     "0", "1", "2", "3", "4", "5", "6", "7", "8", "9", ":",
     "A", "B", "C", "D", "E", "F", "G", "H", "I", "J", "K", "L", "M",
     "N", "O", "P", "Q", "R", "S", "T", "U", "V", "W", "X", "Y", "Z", "_",
     "a", "b", "c", "d", "e", "f", "g", "h", "i", "j", "k", "l", "m",
     "n", "o", "p", "q", "r", "s", "t", "u", "v", "w", "x", "y", "z" >>

\* ord(c), up to a monotone renumbering of the code points.
Ord ==
  [c \in {Alphabet[i] : i \in DOMAIN Alphabet} |->
     CHOOSE i \in DOMAIN Alphabet : Alphabet[i] = c]

\* a < b on str: lexicographic by code point, a proper prefix sorts first.
StrLess(a, b) ==
  LET n == IF Len(a) < Len(b) THEN Len(a) ELSE Len(b)
      differ == {i \in 1..n : a[i] # b[i]}
  IN  IF differ = {} THEN Len(a) < Len(b)
      ELSE LET i == CHOOSE x \in differ : \A z \in differ : x <= z
           IN  Ord[a[i]] < Ord[b[i]]

\* sub in s
Contains(sub, s) ==
  \E i \in 0..(Len(s) - Len(sub)) : SubSeq(s, i + 1, i + Len(sub)) = sub

\* The whitespace str.split() separates on.
IsSpace(c) == c \in {" ", "\n"}

\* s.split(): the maximal runs of non-whitespace characters, in order.
split(s) ==
  LET starts == {i \in DOMAIN s :
                   ~IsSpace(s[i]) /\ (i = 1 \/ IsSpace(s[i - 1]))}
      EndOf(a) == CHOOSE b \in a..Len(s) :
                    /\ \A x \in a..b : ~IsSpace(s[x])
                    /\ b = Len(s) \/ IsSpace(s[b + 1])
      Nth(j) == CHOOSE a \in starts :
                  Cardinality({p \in starts : p <= a}) = j
  IN  [j \in 1..Cardinality(starts) |-> SubSeq(s, Nth(j), EndOf(Nth(j)))]

\* s.splitlines(True): the lines of s, each keeping its line end; a last
\* line without a line end is kept as it is.
splitlines(s) ==
  LET ends == {i \in DOMAIN s : s[i] = "\n" \/ i = Len(s)}
      Nth(j) == CHOOSE e \in ends : Cardinality({p \in ends : p <= e}) = j
      StartOf(j) == IF j = 1 THEN 1 ELSE Nth(j - 1) + 1
  IN  [j \in 1..Cardinality(ends) |-> SubSeq(s, StartOf(j), Nth(j))]

\* What writelines(lines) writes: the lines one after the other, nothing
\* added between or after them.
RECURSIVE writelines(_)
writelines(lines) ==
  IF lines = <<>> THEN <<>> ELSE Head(lines) \o writelines(Tail(lines))

\* data[1:]
Slice1(lines) == IF lines = <<>> THEN <<>> ELSE Tail(lines)

\* sorted(data): ascending by str comparison, equal elements in input order.
sorted(lines) ==
  LET Rank(i) ==
        Cardinality({j \in DOMAIN lines : StrLess(lines[j], lines[i])})
        + Cardinality({j \in 1..(i - 1) : lines[j] = lines[i]}) + 1
  IN  [p \in DOMAIN lines |-> lines[CHOOSE i \in DOMAIN lines : Rank(i) = p]]

Digits == << "0", "1", "2", "3", "4", "5", "6", "7", "8", "9" >>

IsDigit(c) == \E i \in DOMAIN Digits : Digits[i] = c

DigitVal(c) == (CHOOSE i \in DOMAIN Digits : Digits[i] = c) - 1

\* str(n) for an int n >= 0
RECURSIVE str(_)
str(n) ==
  IF n < 10 THEN <<Digits[n + 1]>>
  ELSE str(n \div 10) \o <<Digits[(n % 10) + 1]>>

----------------------------------------------------------------------------
(* The coordinate label table dc (lines 10-27) *)

lat_5x5 == << <<"l", "2", "1">> >>

lat_4x4 == << <<"l", "3", "3", "0">>, <<"l", "3", "3", "1">>,
              <<"l", "4", "0", "2">> >>

\* Mutation of qtr_core_4x4: ['1'], a name the keys of which are parts of
\* the keys of l21 and l331.
QtrCoreOne == << <<"1">> >>

qtr_core_4x4 == << <<"l", "6">> >>

rows_5x5 == << <<"E">>, <<"D">>, <<"C">>, <<"B">>, <<"A">> >>

rows_4x4 == << <<"D">>, <<"C">>, <<"B">>, <<"A">> >>

\* A dict is the sequence of its <<key, value>> items in insertion order,
\* the order dc.keys() enumerates.
DictGet(d, key) == d[CHOOSE n \in DOMAIN d : d[n][1] = key][2]

\* The dict left by executing the assignments d[key] = value of the sequence
\* as in order on an empty dict: a key stands where it was first assigned
\* and holds the value it was last assigned.
DictOf(as) ==
  LET IsFirst(n) == \A m \in 1..(n - 1) : as[m][1] # as[n][1]
      firsts == SelectSeq([n \in DOMAIN as |-> n], IsFirst)
      Last(key) == CHOOSE m \in DOMAIN as :
                     as[m][1] = key /\ \A m2 \in (m + 1)..Len(as) : as[m2][1] # key
  IN  [p \in DOMAIN firsts |->
         <<as[firsts[p]][1], as[Last(as[firsts[p]][1])][2]>>]

\* d[key] = value: the value of a key of d is replaced where it stands, a
\* new key is added at the end.
DictSet(d, key, value) ==
  IF \E n \in DOMAIN d : d[n][1] = key
  THEN [n \in DOMAIN d |-> IF d[n][1] = key THEN <<key, value>> ELSE d[n]]
  ELSE Append(d, <<key, value>>)

\* lat+'('+str(i)+','+str(j)+')'
Key(lat, i, j) == lat \o <<"(">> \o str(i) \o <<",">> \o str(j) \o <<")">>

\* Mutation of LoopNest: the column of a label is counted from 0.
LoopNestZeroBased(lats, rows, ncols, suffix) ==
  [n \in 1..(Len(rows) * ncols * Len(lats)) |->
     LET i == (n - 1) \div (ncols * Len(lats))
         j == ((n - 1) \div Len(lats)) % ncols
         lat == lats[((n - 1) % Len(lats)) + 1]
     IN  <<Key(lat, i, j), rows[i + 1] \o str(j) \o suffix>>]

\* The assignments of one loop nest, in execution order: for i in
\* range(len(rows)), for j in range(ncols), for lat in lats,
\* dc[Key(lat, i, j)] = rows[i]+str(j+1)+suffix.
LoopNest(lats, rows, ncols, suffix) ==
  [n \in 1..(Len(rows) * ncols * Len(lats)) |->
     LET i == (n - 1) \div (ncols * Len(lats))
         j == ((n - 1) \div Len(lats)) % ncols
         lat == lats[((n - 1) % Len(lats)) + 1]
     IN  <<Key(lat, i, j), rows[i + 1] \o str(j + 1) \o suffix>>]

\* Mutation of Assignments: the third loop nest runs over lat_4x4 again.
AssignmentsTwice ==
  LoopNest(lat_5x5, rows_5x5, 5, <<>>)
  \o LoopNest(lat_4x4, rows_4x4, 4, <<>>)
  \o LoopNest(lat_4x4, rows_4x4, 4, <<"_">>)

\* The assignments dc[key] = value of lines 16-27, in execution order.
Assignments ==
  LoopNest(lat_5x5, rows_5x5, 5, <<>>)
  \o LoopNest(lat_4x4, rows_4x4, 4, <<>>)
  \o LoopNest(qtr_core_4x4, rows_4x4, 4, <<"_">>)

dc == DictOf(Assignments)

----------------------------------------------------------------------------
(* float(token) and '%.6e' (lines 55-59) *)

RECURSIVE NumDigits(_)
NumDigits(n) == IF n < 10 THEN 1 ELSE 1 + NumDigits(n \div 10)

RECURSIVE NatOf(_)
NatOf(ds) ==
  IF ds = <<>> THEN 0
  ELSE 10 * NatOf(SubSeq(ds, 1, Len(ds) - 1)) + DigitVal(ds[Len(ds)])

\* The first position of s holding a character of cs, 0 when there is none.
FirstOf(s, cs) ==
  IF \E i \in DOMAIN s : s[i] \in cs
  THEN CHOOSE i \in DOMAIN s : s[i] \in cs /\ \A h \in 1..(i - 1) : s[h] \notin cs
  ELSE 0

\* c.lower() for a letter of the Alphabet: 'A' stands 27 places before 'a'.
Lower(c) ==
  IF Ord[c] >= Ord["A"] /\ Ord[c] <= Ord["Z"] THEN Alphabet[Ord[c] + 27]
  ELSE c

\* A run of digits as float() accepts it: underscores may group the digits,
\* one at a time and only between two digits.
Grouped(ds) ==
  /\ \A i \in DOMAIN ds : IsDigit(ds[i]) \/ ds[i] = "_"
  /\ \A i \in DOMAIN ds :
       ds[i] = "_" => /\ i > 1 /\ i < Len(ds)
                      /\ IsDigit(ds[i - 1]) /\ IsDigit(ds[i + 1])

Ungroup(ds) == SelectSeq(ds, IsDigit)

\* The largest double is 1.7976931348623157e308: a literal whose leading
\* nine digits are above 179769313 at 10^308, or that is 10^309 or more,
\* becomes inf.
MaxExp10 == 308

MaxLead9 == 179769313

\* float(tok): an optional sign, then 'inf', 'infinity' or 'nan' in any
\* case, or a decimal literal (digits with an optional point, an optional
\* exponent). ok = FALSE is ValueError. special is "inf", "nan" or "" for a
\* finite value, which is (-1)^neg * mant * 10^exp, kept exact: a literal
\* of up to nine significant digits between 1e-307 and the largest double.
float(tok) ==
  LET signed == tok # <<>> /\ tok[1] \in {"+", "-"}
      body == IF signed THEN Tail(tok) ELSE tok
      low == [i \in DOMAIN body |-> Lower(body[i])]
      epos == FirstOf(body, {"e", "E"})
      mpart == IF epos = 0 THEN body ELSE SubSeq(body, 1, epos - 1)
      epart == IF epos = 0 THEN <<>> ELSE SubSeq(body, epos + 1, Len(body))
      dpos == FirstOf(mpart, {"."})
      ip == IF dpos = 0 THEN mpart ELSE SubSeq(mpart, 1, dpos - 1)
      fp == IF dpos = 0 THEN <<>> ELSE SubSeq(mpart, dpos + 1, Len(mpart))
      esigned == epart # <<>> /\ epart[1] \in {"+", "-"}
      edigits == IF esigned THEN Tail(epart) ELSE epart
      eok == epos = 0 \/ (edigits # <<>> /\ Grouped(edigits))
      mok == Grouped(ip) /\ Grouped(fp) /\ Len(ip) + Len(fp) >= 1
      e == IF epos = 0 \/ ~eok THEN 0
           ELSE IF esigned /\ epart[1] = "-" THEN 0 - NatOf(Ungroup(edigits))
           ELSE NatOf(Ungroup(edigits))
      neg == signed /\ tok[1] = "-"
      mant == NatOf(Ungroup(ip) \o Ungroup(fp))
      exp == e - Len(Ungroup(fp))
      n == NumDigits(mant)
      e10 == exp + n - 1
      lead9 == IF n <= 9 THEN mant * 10 ^ (9 - n) ELSE mant \div 10 ^ (n - 9)
      over == mant # 0 /\ (e10 > MaxExp10
                           \/ (e10 = MaxExp10 /\ lead9 > MaxLead9))
  IN  IF low \in { <<"i", "n", "f">>, <<"i", "n", "f", "i", "n", "i", "t", "y">> }
      THEN [ok |-> TRUE, special |-> "inf", neg |-> neg, mant |-> 0, exp |-> 0]
      ELSE IF low = <<"n", "a", "n">>
      THEN [ok |-> TRUE, special |-> "nan", neg |-> neg, mant |-> 0, exp |-> 0]
      ELSE IF mok /\ eok
      THEN IF over
           THEN [ok |-> TRUE, special |-> "inf", neg |-> neg,
                 mant |-> 0, exp |-> 0]
           ELSE [ok |-> TRUE, special |-> "", neg |-> neg,
                 mant |-> mant, exp |-> exp]
      ELSE [ok |-> FALSE, special |-> "", neg |-> FALSE, mant |-> 0, exp |-> 0]

\* Mutation of RoundHalfEven: the digits beyond the seventh are cut off.
RoundDown(n, d) == n \div d

\* n / d rounded to the nearest integer, a tie to the even one.
RoundHalfEven(n, d) ==
  LET q == n \div d
      r == n % d
  IN  IF 2 * r > d \/ (2 * r = d /\ q % 2 = 1) THEN q + 1 ELSE q

\* str(n) padded with zeros on the left to at least w digits
RECURSIVE ZeroPad(_, _)
ZeroPad(ds, w) == IF Len(ds) >= w THEN ds ELSE ZeroPad(<<"0">> \o ds, w)

\* '%.6e' % v for a finite v: one digit, a point, exactly six digits, 'e',
\* the sign of the exponent and at least two exponent digits. A value of
\* more than seven significant digits is rounded to seven.
FormatFinite(v) ==
  LET n == NumDigits(v.mant)
      m0 == IF n <= 7 THEN v.mant * 10 ^ (7 - n)
            ELSE RoundHalfEven(v.mant, 10 ^ (n - 7))
      carry == m0 = 10 ^ 7
      m7 == IF carry THEN 10 ^ 6 ELSE m0
      e10 == IF v.mant = 0 THEN 0
             ELSE v.exp + n - 1 + (IF carry THEN 1 ELSE 0)
      ds == ZeroPad(str(m7), 7)
  IN  (IF v.neg THEN <<"-">> ELSE <<>>)
      \o <<ds[1], ".">> \o SubSeq(ds, 2, 7) \o <<"e">>
      \o (IF e10 < 0 THEN <<"-">> ELSE <<"+">>)
      \o ZeroPad(str(IF e10 < 0 THEN 0 - e10 ELSE e10), 2)

\* '%.6e' % v: an infinity is written 'inf' or '-inf' and a nan 'nan',
\* without digits.
FormatE(v) ==
  IF v.special = "inf"
  THEN (IF v.neg THEN <<"-">> ELSE <<>>) \o <<"i", "n", "f">>
  ELSE IF v.special = "nan" THEN <<"n", "a", "n">>
  ELSE FormatFinite(v)

----------------------------------------------------------------------------
(* The report: the lines tallies.out can hold *)

\* 'TALLY 1 2 absorption_All'
TallyAbsorption ==
  <<"T", "A", "L", "L", "Y", " ", "1", " ", "2", " ", "a", "b", "s", "o",
  "r", "p", "t", "i", "o", "n", "_", "A", "l", "l">>

\* 'TALLY 2 2 flux_All'
TallyFlux ==
  <<"T", "A", "L", "L", "Y", " ", "2", " ", "2", " ", "f", "l", "u", "x",
  "_", "A", "l", "l">>

\* 'TALLY 3 2 absorption_All_2'
TallyAbsorption2 ==
  <<"T", "A", "L", "L", "Y", " ", "3", " ", "2", " ", "a", "b", "s", "o",
  "r", "p", "t", "i", "o", "n", "_", "A", "l", "l", "_", "2">>

\* 'Distributed Cell 161 l21(4,0)'
CellA1 ==
  <<"D", "i", "s", "t", "r", "i", "b", "u", "t", "e", "d", " ", "C", "e",
  "l", "l", " ", "1", "6", "1", " ", "l", "2", "1", "(", "4", ",", "0",
  ")">>

\* 'Distributed Cell 162 l6(3,3)'
CellLastKey ==
  <<"D", "i", "s", "t", "r", "i", "b", "u", "t", "e", "d", " ", "C", "e",
  "l", "l", " ", "1", "6", "2", " ", "l", "6", "(", "3", ",", "3", ")">>

\* 'Absorption +/- 1.0 1.0 2.0 3.0 4.0'
RateLine ==
  <<"A", "b", "s", "o", "r", "p", "t", "i", "o", "n", " ", "+", "/", "-",
  " ", "1", ".", "0", " ", "1", ".", "0", " ", "2", ".", "0", " ", "3",
  ".", "0", " ", "4", ".", "0">>

\* 'Flux 1.0 +/- 2.0'
FluxLine ==
  <<"F", "l", "u", "x", " ", "1", ".", "0", " ", "+", "/", "-", " ", "2",
  ".", "0">>

\* 'Flux 5.0 +/- 6.0'
FluxLine56 ==
  <<"F", "l", "u", "x", " ", "5", ".", "0", " ", "+", "/", "-", " ", "6",
  ".", "0">>

\* 'Flux +/- 5.0 +/- 6.0'
FluxSignsLine ==
  <<"F", "l", "u", "x", " ", "+", "/", "-", " ", "5", ".", "0", " ", "+",
  "/", "-", " ", "6", ".", "0">>

\* The lines a report is made of.
Lines ==
  { TallyAbsorption, TallyFlux, TallyAbsorption2, CellA1, CellLastKey,
    RateLine, FluxLine, FluxLine56, FluxSignsLine }

\* 'TALLY 4 2 nu_238': a primary header whose tally name holds '_2'
TallyNu238 ==
  <<"T", "A", "L", "L", "Y", " ", "4", " ", "2", " ", "n", "u", "_", "2",
    "3", "8">>

\* 'TALLY 1': a header line of fewer than four tokens
TallyShort ==
  <<"T", "A", "L", "L", "Y", " ", "1">>

\* 'Distributed Cell 163': no key of the table
CellNoKey ==
  <<"D", "i", "s", "t", "r", "i", "b", "u", "t", "e", "d", " ", "C", "e",
    "l", "l", " ", "1", "6", "3">>

\* 'Distributed Cell 164 l21(4,0) l330(0,0)': two keys of the table
CellTwoKeys ==
  <<"D", "i", "s", "t", "r", "i", "b", "u", "t", "e", "d", " ", "C", "e",
    "l", "l", " ", "1", "6", "4", " ", "l", "2", "1", "(", "4", ",", "0",
    ")", " ", "l", "3", "3", "0", "(", "0", ",", "0", ")">>

\* 'Distributed Cell 165 l6(3,3) l21(4,0)': two keys, one of them the last key of the table
CellTwoKeysLast ==
  <<"D", "i", "s", "t", "r", "i", "b", "u", "t", "e", "d", " ", "C", "e",
    "l", "l", " ", "1", "6", "5", " ", "l", "6", "(", "3", ",", "3", ")",
    " ", "l", "2", "1", "(", "4", ",", "0", ")">>

\* 'Flux 1.0 +/-': a result line without its last token
FluxShort ==
  <<"F", "l", "u", "x", " ", "1", ".", "0", " ", "+", "/", "-">>

\* The lines of a report that is not as the solver writes it.
OddLines ==
  { TallyFlux, TallyNu238, TallyShort, CellNoKey, CellTwoKeys,
    CellTwoKeysLast, FluxLine, FluxShort, FluxSignsLine }

\* The longest report read.
MaxLines == 4

TALLY == <<"T", "A", "L", "L", "Y">>

US2 == <<"_", "2">>

DistributedCell ==
  <<"D", "i", "s", "t", "r", "i", "b", "u", "t", "e", "d", " ", "C", "e",
    "l", "l">>

PlusMinus == <<"+", "/", "-">>

Flux == <<"F", "l", "u", "x">>

DotOut == <<".", "o", "u", "t">>

----------------------------------------------------------------------------
(* The state of main() *)

VARIABLES
  pc,                \* where main() stands: "build" (lines 15-27, only
                     \* where the building of the table is followed step
                     \* by step), "open" (line 31), "scan" (the
                     \* loop of line 33), "strip" (the loop of line 64),
                     \* "strip_read", "strip_reopen", "strip_write"
                     \* (lines 66, 67, 68), "sort" (the loop of line 72),
                     \* "sort_read", "sort_reopen", "sort_write" (lines
                     \* 74, 75, 76), "done", "error",
                     \* and "resorted" after the sort pass was run again
  err,               \* the exception main() ended in, "none" while it runs
  report,            \* the lines of tallies.out read so far, in order
  score_all,         \* the list score_all
  flag_first_score,  \* the flag of that name
  fout,              \* the local fout: unbound before the first open()
  files,             \* the working directory: file name -> file content
  open_streams,      \* the names of the files of the directory now open,
                     \* one for each open stream
  k,                 \* the index in score_all of the post-pass loops, and
                     \* while the table is built the assignments done
  table,             \* the dict dc
  data               \* the list data of the post-passes

vars ==
  <<pc, err, report, score_all, flag_first_score, fout, files,
    open_streams, k, table, data>>

Unbound == [bound |-> FALSE, closed |-> FALSE, name |-> <<>>]

\* The locals and files a line of the scan works on.
Locals ==
  [score_all |-> score_all, flag_first_score |-> flag_first_score,
   fout |-> fout, files |-> files, open_streams |-> open_streams,
   err |-> "none"]

Raise(s, e) == [s EXCEPT !.err = e]

\* The sequence q without its first element equal to x.
RECURSIVE RemoveOne(_, _)
RemoveOne(q, x) ==
  IF q = <<>> THEN <<>>
  ELSE IF Head(q) = x THEN Tail(q)
  ELSE <<Head(q)>> \o RemoveOne(Tail(q), x)

\* Mutation of Close: the stream is marked closed but stays open.
CloseLeaks(s) ==
  IF ~s.fout.bound THEN Raise(s, "UnboundLocalError")
  ELSE [s EXCEPT !.fout.closed = TRUE]

\* fout.close()
Close(s) ==
  IF ~s.fout.bound THEN Raise(s, "UnboundLocalError")
  ELSE [s EXCEPT !.fout.closed = TRUE,
                 !.open_streams = IF s.fout.closed THEN @
                                  ELSE RemoveOne(@, s.fout.name)]

\* Mutation of OpenW: open(name, 'a'), a file that exists keeps its content.
OpenWAppend(s, name) ==
  [s EXCEPT !.fout = [bound |-> TRUE, closed |-> FALSE, name |-> name],
            !.files = [f \in DOMAIN s.files \cup {name} |->
                         IF f \in DOMAIN s.files THEN s.files[f] ELSE <<>>],
            !.open_streams = Append(@, name)]

\* fout = open(name, 'w'): the file is created, or truncated when it exists.
OpenW(s, name) ==
  [s EXCEPT !.fout = [bound |-> TRUE, closed |-> FALSE, name |-> name],
            !.files = [f \in DOMAIN s.files \cup {name} |->
                         IF f = name THEN <<>> ELSE s.files[f]],
            !.open_streams = Append(@, name)]

\* fout.write(text)
Write(s, text) ==
  IF ~s.fout.bound THEN Raise(s, "UnboundLocalError")
  ELSE IF s.fout.closed THEN Raise(s, "ValueError")
  ELSE [s EXCEPT !.files[s.fout.name] = @ \o text]

\* Mutation of IsPrimaryHeader: a header is a continuation only when its
\* last token ends in '_2'.
IsPrimaryByNameEnd(line) ==
  /\ Contains(TALLY, line)
  /\ LET name == split(line)[Len(split(line))] IN
     ~(Len(name) >= 2 /\ SubSeq(name, Len(name) - 1, Len(name)) = US2)

\* Mutation of IsPrimaryHeader: the '_2' test is left out.
AnyTallyHeader(line) == Contains(TALLY, line)

\* 'TALLY' in line and '_2' not in line
IsPrimaryHeader(line) == Contains(TALLY, line) /\ ~Contains(US2, line)

\* Mutation of TallyName: score[2], the token before the name.
TallyNameThird(score) == score[3]

\* score[3]: the 4th token, which raises IndexError when there is none.
TallyName(score) == score[4]

\* Mutation of IfTally: the name of a continuation header is consulted. A
\* header whose name without '_2' is not the current tally closes the
\* stream and opens the file of that name.
IfTallyBaseName(line, s) ==
  IF ~Contains(TALLY, line) THEN s
  ELSE LET score == split(line) IN
       IF Len(score) < 4 THEN Raise(s, "IndexError")
       ELSE LET name == TallyName(score)
                base == IF Contains(US2, line) /\ Len(name) > 2
                        THEN SubSeq(name, 1, Len(name) - 2) ELSE name
            IN  IF /\ Contains(US2, line)
                   /\ s.score_all # <<>>
                   /\ s.score_all[Len(s.score_all)] = base
                THEN s
                ELSE LET s1 == [s EXCEPT !.score_all = Append(@, base)]
                         s2 == IF ~s1.flag_first_score THEN Close(s1) ELSE s1
                         s3 == OpenW(s2, base \o DotOut)
                     IN  [s3 EXCEPT !.flag_first_score = FALSE]

\* Mutation of IfTally: lines 37-38 are left out, the previous stream is
\* not closed.
IfTallyNoClose(line, s) ==
  IF ~IsPrimaryHeader(line) THEN s
  ELSE LET score == split(line) IN
       IF Len(score) < 4 THEN Raise(s, "IndexError")
       ELSE LET s1 == [s EXCEPT !.score_all = Append(@, TallyName(score))]
                s3 == OpenW(s1, s1.score_all[Len(s1.score_all)] \o DotOut)
            IN  [s3 EXCEPT !.flag_first_score = FALSE]

\* Lines 34-40.
IfTally(line, s) ==
  IF ~IsPrimaryHeader(line) THEN s
  ELSE LET score == split(line) IN
       IF Len(score) < 4 THEN Raise(s, "IndexError")
       ELSE LET s1 == [s EXCEPT !.score_all = Append(@, TallyName(score))]
                s2 == IF ~s1.flag_first_score THEN Close(s1) ELSE s1
                s3 == OpenW(s2, s1.score_all[Len(s1.score_all)] \o DotOut)
            IN  [s3 EXCEPT !.flag_first_score = FALSE]

\* Lines 43-50, one iteration of the loop over dc.keys(), on the n-th
\* key: pc1 and pc2 are set to '' whatever they were, and when the key is
\* in the line one of them is set to its label.
Iteration(line, n, pc1, pc2) ==
  LET item == dc[n][1]
      reset1 == <<>>
      reset2 == <<>>
  IN  IF Contains(item, line)
      THEN IF Contains(<<"_">>, DictGet(dc, item))
           THEN <<DictGet(dc, item), reset2>>
           ELSE <<<<>>, DictGet(dc, item)>>
      ELSE <<reset1, reset2>>

\* Mutation of Label: the label of the last key of the table that is in
\* the line, empty when there is none.
LabelLastMatch(line) ==
  LET found == {n \in DOMAIN dc : Contains(dc[n][1], line)} IN
  IF found = {} THEN <<>>
  ELSE dc[CHOOSE n \in found : \A m \in found : m <= n][2]

\* Lines 42-51: pc1+pc2 after the loop has gone over all the keys.
Label(line) ==
  LET after[n \in 0..Len(dc)] ==
        IF n = 0 THEN <<<<>>, <<>>>>
        ELSE Iteration(line, n, after[n - 1][1], after[n - 1][2])
  IN  after[Len(dc)][1] \o after[Len(dc)][2]

\* Label, computed once for each line a report can hold.
LabelOf == [line \in Lines \cup OddLines |-> Label(line)]

\* Lines 41-51.
IfCell(line, s) ==
  IF ~Contains(DistributedCell, line) THEN s
  ELSE Write(s, <<"\n">> \o LabelOf[line] \o <<":", " ">>)

\* Mutation of MeanAt: the flux layout is not told apart.
MeanAtThird(val) == 3

\* Mutation of StdAt: val[3] for a reaction rate, one token early.
StdAtFourth(val) == 4

\* Lines 53-59: the positions (1-based) of the mean and std tokens.
MeanAt(val) == IF val[1] = Flux THEN 2 ELSE 3

StdAt(val) == IF val[1] = Flux THEN 4 ELSE 5

\* Mutation of RecordText: the std is written before the mean.
RecordTextSwapped(mean, std) == std \o <<",", " ">> \o mean \o <<",", " ">>

\* Line 60: mean + ', ' + std + ', '
RecordText(mean, std) == mean \o <<",", " ">> \o std \o <<",", " ">>

\* Lines 52-60.
IfResult(line, s) ==
  IF ~Contains(PlusMinus, line) THEN s
  ELSE LET val == split(line) IN
       IF Len(val) < MeanAt(val) THEN Raise(s, "IndexError")
       ELSE IF ~float(val[MeanAt(val)]).ok THEN Raise(s, "ValueError")
       ELSE IF Len(val) < StdAt(val) THEN Raise(s, "IndexError")
       ELSE IF ~float(val[StdAt(val)]).ok THEN Raise(s, "ValueError")
       ELSE LET mean == FormatE(float(val[MeanAt(val)]))
                std == FormatE(float(val[StdAt(val)]))
            IN  Write(s, RecordText(mean, std))

\* The body of the loop of line 33 on one line: the three ifs in order, an
\* exception ending it where it is raised.
ScanLine(line, s) ==
  LET s1 == IfTally(line, s)
      s2 == IF s1.err = "none" THEN IfCell(line, s1) ELSE s1
  IN  IF s2.err = "none" THEN IfResult(line, s2) ELSE s2

\* Mutation of StripFirst: data[2:], one line too many is dropped.
StripFirstTwo(lines) == writelines(Slice1(Slice1(lines))) \o <<"\n">>

\* Mutation of StripFirst: line 69 is left out.
StripFirstNoNewline(lines) == writelines(Slice1(lines))

\* Lines 68-69: what is written to the file, lines being data.
StripFirst(lines) == writelines(Slice1(lines)) \o <<"\n">>

\* Mutation of SortFile: the lines are written back as they were read.
SortFileUnsorted(lines) == writelines(lines)

\* Mutation of SortFile: the write of line 69 is repeated after the sort.
SortFileBlankLine(lines) == writelines(sorted(lines)) \o <<"\n">>

\* Line 76: what is written to the file, lines being data.
SortFile(lines) == writelines(sorted(lines))

Commit(s) ==
  /\ score_all' = s.score_all
  /\ flag_first_score' = s.flag_first_score
  /\ fout' = s.fout
  /\ files' = s.files
  /\ open_streams' = s.open_streams
  /\ err' = s.err

\* main() at line 30: the table has been built.
Init ==
  /\ pc = "open"
  /\ err = "none"
  /\ report = <<>>
  /\ score_all = <<>>
  /\ flag_first_score = TRUE
  /\ fout = Unbound
  /\ files = <<>>
  /\ open_streams = <<>>
  /\ k = 0
  /\ table = dc
  /\ data = <<>>

\* What open('tallies.out', 'r') ends in: "none" when the file is opened,
\* or the OSError raised when it is missing or cannot be read.
OpenOutcomes == {"none", "FileNotFoundError", "PermissionError"}

\* Mutation of OpenReport: the output file of the first tally is created
\* before the report is opened.
OpenReportLate ==
  /\ pc = "open"
  /\ \E e \in OpenOutcomes :
       /\ pc' = IF e = "none" THEN "scan" ELSE "error"
       /\ err' = e
  /\ files' = [f \in DOMAIN files \cup {TallyName(split(TallyFlux)) \o DotOut}
                |-> <<>>]
  /\ UNCHANGED <<report, score_all, flag_first_score, fout, open_streams, k,
                 table, data>>

\* Line 31: open('tallies.out', 'r').
OpenReport ==
  /\ pc = "open"
  /\ \E e \in OpenOutcomes :
       /\ pc' = IF e = "none" THEN "scan" ELSE "error"
       /\ err' = e
  /\ UNCHANGED <<report, score_all, flag_first_score, fout, files,
                 open_streams, k, table, data>>

\* Mutation of Scan: the stream is closed when the line raises an error,
\* as a with block around the stream would do.
ScanCloses(line) ==
  LET s0 == ScanLine(line, Locals)
      s == IF s0.err = "none" \/ ~s0.fout.bound THEN s0
           ELSE [Close(s0) EXCEPT !.err = s0.err]
  IN
  /\ report' = Append(report, line)
  /\ Commit(s)
  /\ pc' = IF s.err = "none" THEN "scan" ELSE "error"
  /\ UNCHANGED <<k, table, data>>

\* Lines 33-60 on one line: the line is read and handled.
Scan(line) ==
  LET s == ScanLine(line, Locals) IN
  /\ report' = Append(report, line)
  /\ Commit(s)
  /\ pc' = IF s.err = "none" THEN "scan" ELSE "error"
  /\ UNCHANGED <<k, table, data>>

\* Line 33: the next line of the report is read.
ReadLine ==
  /\ pc = "scan"
  /\ Len(report) < MaxLines
  /\ \E line \in Lines : Scan(line)

\* The report ends: line 61, then the first post-pass begins.
EndOfInput ==
  /\ pc = "scan"
  /\ LET s == Close(Locals) IN
     /\ Commit(s)
     /\ pc' = IF s.err = "none" THEN "strip" ELSE "error"
     /\ k' = IF s.err = "none" THEN 1 ELSE k
  /\ UNCHANGED <<report, table, data>>

\* The file the post-pass loop stands at: score+'.out'.
PassFile == score_all[k] \o DotOut

\* with open(score+'.out', 'r') as fin, lines 65 and 73.
OpenRead(here, inside) ==
  /\ pc = here
  /\ pc' = inside
  /\ open_streams' = Append(open_streams, PassFile)
  /\ UNCHANGED <<err, report, score_all, flag_first_score, fout, files, k,
                 table, data>>

\* data = fin.read().splitlines(True) and the end of the with block, which
\* closes fin: lines 66 and 74.
ReadAll(inside, after) ==
  /\ pc = inside
  /\ pc' = after
  /\ data' = splitlines(files[PassFile])
  /\ open_streams' = RemoveOne(open_streams, PassFile)
  /\ UNCHANGED <<err, report, score_all, flag_first_score, fout, files, k,
                 table>>

\* with open(score+'.out', 'w') as fout, lines 67 and 75: the file is
\* truncated and fout is the new stream.
OpenWrite(after, writing) ==
  /\ pc = after
  /\ pc' = writing
  /\ LET s == OpenW(Locals, PassFile) IN Commit(s)
  /\ UNCHANGED <<report, k, table, data>>

\* Mutation of WriteAll: the loop does not go on to the next score.
WriteAllSameScore(writing, text, here, next, last) ==
  /\ pc = writing
  /\ LET s == Close(Write(Locals, text)) IN Commit(s)
  /\ pc' = here
  /\ UNCHANGED <<report, table, data, k>>

\* The body of the with block and its end, which closes fout; then the
\* loop goes to the next score, or the pass is over.
WriteAll(writing, text, here, next, last) ==
  /\ pc = writing
  /\ LET s == Close(Write(Locals, text)) IN Commit(s)
  /\ pc' = IF k = Len(score_all) THEN next ELSE here
  /\ k' = IF k = Len(score_all) THEN last ELSE k + 1
  /\ UNCHANGED <<report, table, data>>

\* Line 65.
StripOpenRead == OpenRead("strip", "strip_read")

\* Line 66.
StripRead == ReadAll("strip_read", "strip_reopen")

\* Line 67.
StripOpenWrite == OpenWrite("strip_reopen", "strip_write")

\* Lines 68-69.
StripWrite == WriteAll("strip_write", StripFirst(data), "strip", "sort", 1)

\* Lines 64-69: the first post-pass.
StripStep == StripOpenRead \/ StripRead \/ StripOpenWrite \/ StripWrite

\* Line 73.
SortOpenRead == OpenRead("sort", "sort_read")

\* Line 74.
SortRead == ReadAll("sort_read", "sort_reopen")

\* Line 75.
SortOpenWrite == OpenWrite("sort_reopen", "sort_write")

\* Line 76.
SortWrite == WriteAll("sort_write", SortFile(data), "sort", "done", k)

\* Lines 72-76: the second post-pass.
SortStep == SortOpenRead \/ SortRead \/ SortOpenWrite \/ SortWrite

Next == OpenReport \/ ReadLine \/ EndOfInput \/ StripStep \/ SortStep

Spec == Init /\ [][Next]_vars

\* main() is one sequential program that the interpreter keeps executing:
\* the open of line 31 returns or raises, the report is a finite file
\* whose end the loop of line 33 reaches, and each step of the post-passes
\* is taken while it is possible.
\* The lines of the reports on which the progress of main() is followed:
\* two primary headers, two cell lines and a result line.
LiveLines == {TallyAbsorption, TallyFlux, CellA1, CellLastKey, RateLine}

\* Line 33: the next line of such a report is read.
ReadLiveLine ==
  /\ pc = "scan"
  /\ Len(report) < MaxLines
  /\ \E line \in LiveLines : Scan(line)

NextLive == OpenReport \/ ReadLiveLine \/ EndOfInput \/ StripStep \/ SortStep

SpecLive ==
  /\ Init /\ [][NextLive]_vars
  /\ WF_vars(OpenReport) /\ WF_vars(EndOfInput)
  /\ WF_vars(StripStep) /\ WF_vars(SortStep)

\* Lines 72-76 run once more on the files main() has left.
SortAgain ==
  /\ pc = "done"
  /\ files' = [f \in DOMAIN files |-> SortFile(splitlines(files[f]))]
  /\ pc' = "resorted"
  /\ UNCHANGED <<err, report, score_all, flag_first_score, fout,
                 open_streams, k, table, data>>

NextResort ==
  OpenReport \/ ReadLine \/ EndOfInput \/ StripStep \/ SortStep \/ SortAgain

SpecResort == Init /\ [][NextResort]_vars

----------------------------------------------------------------------------
(* main() on reports made of OddLines *)

\* Line 33: the next line of such a report is read.
ReadOddLine ==
  /\ pc = "scan"
  /\ Len(report) < MaxLines
  /\ \E line \in OddLines : Scan(line)

NextOdd == OpenReport \/ ReadOddLine \/ EndOfInput \/ StripStep \/ SortStep

SpecOdd == Init /\ [][NextOdd]_vars

----------------------------------------------------------------------------
(* main() from its first line: the table is built one assignment at a    *)
(* time (lines 15-27), then main() goes on as above.                      *)

InitBuild ==
  /\ pc = "build"
  /\ err = "none"
  /\ report = <<>>
  /\ score_all = <<>>
  /\ flag_first_score = TRUE
  /\ fout = Unbound
  /\ files = <<>>
  /\ open_streams = <<>>
  /\ k = 0
  /\ table = <<>>
  /\ data = <<>>

\* Lines 19, 23, 27: the next assignment dc[key] = value of the loop nests.
Assign ==
  /\ pc = "build"
  /\ table' = DictSet(table, Assignments[k + 1][1], Assignments[k + 1][2])
  /\ pc' = IF k + 1 = Len(Assignments) THEN "open" ELSE "build"
  /\ k' = IF k + 1 = Len(Assignments) THEN 0 ELSE k + 1
  /\ UNCHANGED <<err, report, score_all, flag_first_score, fout, files,
                 open_streams, data>>

NextBuild ==
  Assign \/ OpenReport \/ ReadLine \/ EndOfInput \/ StripStep \/ SortStep

SpecBuild == InitBuild /\ [][NextBuild]_vars

----------------------------------------------------------------------------
(* main() on reports that differ in their numbers: 'TALLY 2 2 flux_All',  *)
(* 'Distributed Cell 162 l6(3,3)', then result lines 'Flux <mean> +/-      *)
(* <std>' whose two tokens are drawn from Tokens.                          *)

\* '0'
TokZero ==
  <<"0">>

\* '1234567.5'
TokTie ==
  <<"1", "2", "3", "4", "5", "6", "7", ".", "5">>

\* '9.9999996'
TokCarry ==
  <<"9", ".", "9", "9", "9", "9", "9", "9", "6">>

\* '-1.2345674e-5'
TokSmall ==
  <<"-", "1", ".", "2", "3", "4", "5", "6", "7", "4", "e", "-", "5">>

\* 'inf'
TokInf ==
  <<"i", "n", "f">>

\* 'NaN'
TokNan ==
  <<"N", "a", "N">>

\* '1_0.5E+2'
TokGrouped ==
  <<"1", "_", "0", ".", "5", "E", "+", "2">>

\* '+/-'
TokSigns ==
  <<"+", "/", "-">>

\* '2e308'
TokOverflow ==
  <<"2", "e", "3", "0", "8">>

\* '1e-100'
TokWideExponent ==
  <<"1", "e", "-", "1", "0", "0">>

Tokens ==
  { TokZero, TokTie, TokCarry, TokSmall, TokInf, TokNan, TokGrouped,
    TokSigns, TokOverflow, TokWideExponent }

\* 'Flux <mean> +/- <std>'
FluxOf(mean, std) ==
  Flux \o <<" ">> \o mean \o <<" ">> \o PlusMinus \o <<" ">> \o std

NumbersHead == <<TallyFlux, CellLastKey>>

\* The most result lines of a report of numbers.
MaxNumberLines == 1

\* Line 33 on the two lines a report of numbers begins with.
ReadHead ==
  /\ pc = "scan"
  /\ Len(report) < Len(NumbersHead)
  /\ Scan(NumbersHead[Len(report) + 1])

\* Line 33 on a result line of a report of numbers.
ReadNumberLine ==
  /\ pc = "scan"
  /\ Len(report) >= Len(NumbersHead)
  /\ Len(report) < Len(NumbersHead) + MaxNumberLines
  /\ \E mean \in Tokens, std \in Tokens : Scan(FluxOf(mean, std))

NextNumbers ==
  OpenReport \/ ReadHead \/ ReadNumberLine \/ EndOfInput \/ StripStep
  \/ SortStep

SpecNumbers == Init /\ [][NextNumbers]_vars

----------------------------------------------------------------------------
(* main() in a directory that holds the output of an earlier run *)

\* What main() leaves in a file for the lines 'Distributed Cell 162
\* l6(3,3)', 'Flux 1.0 +/- 2.0' after the header: the text written by the
\* scan, then the two post-passes.
LeftoverContent ==
  SortFile(splitlines(StripFirst(splitlines(
    <<"\n">> \o LabelOf[CellLastKey] \o <<":", " ">>
    \o RecordText(FormatE(float(split(FluxLine)[2])),
                  FormatE(float(split(FluxLine)[4])))))))

\* The directories main() is started in: an empty one, and one that holds
\* flux_All.out or absorption_All.out of an earlier run.
StartDirs ==
  { <<>> }
  \cup { [f \in {TallyName(split(h)) \o DotOut} |-> LeftoverContent] :
           h \in {TallyFlux, TallyAbsorption} }

InitLeftover ==
  /\ pc = "open"
  /\ err = "none"
  /\ report = <<>>
  /\ score_all = <<>>
  /\ flag_first_score = TRUE
  /\ fout = Unbound
  /\ files \in StartDirs
  /\ open_streams = <<>>
  /\ k = 0
  /\ table = dc
  /\ data = <<>>

SpecLeftover == InitLeftover /\ [][Next]_vars

----------------------------------------------------------------------------
(* What the properties below say about a report, stated on its text *)

\* A primary header line: it contains 'TALLY' and not '_2'.
PrimaryLine(line) == Contains(TALLY, line) /\ ~Contains(US2, line)

\* A continuation header line: it contains 'TALLY' and '_2'.
ContinuationLine(line) == Contains(TALLY, line) /\ Contains(US2, line)

CellLine(line) == Contains(DistributedCell, line)

ResultLine(line) == Contains(PlusMinus, line)

\* The positions of the primary header lines of the report r.
PrimaryAt(r) == {i \in DOMAIN r : PrimaryLine(r[i])}

\* The tally name of the header line at position h: its 4th token.
NameAt(r, h) == split(r[h])[4]

\* The block of the primary header at h: the lines after it up to the next
\* primary header, the continuation blocks that follow it included.
BlockOf(r, h) ==
  {i \in DOMAIN r : i > h /\ \A j \in PrimaryAt(r) : j <= h \/ j > i}

CellsOf(r, h) == {i \in BlockOf(r, h) : CellLine(r[i])}

ResultsOf(r, h) == {i \in BlockOf(r, h) : ResultLine(r[i])}

\* A report as the solver writes it: a line is of one kind only, no tally
\* name has two primary headers, and a result line follows a Distributed
\* Cell line of its block.
ValidReport(r) ==
  /\ \A i \in DOMAIN r :
       /\ ~(Contains(TALLY, r[i]) /\ (CellLine(r[i]) \/ ResultLine(r[i])))
       /\ ~(CellLine(r[i]) /\ ResultLine(r[i]))
  /\ \A g, h \in PrimaryAt(r) : g # h => NameAt(r, g) # NameAt(r, h)
  /\ \A i \in DOMAIN r :
       ResultLine(r[i]) =>
         \E h \in PrimaryAt(r) : \E j \in CellsOf(r, h) :
           j < i /\ i \in BlockOf(r, h)

\* The number of places where sub occurs in s.
CountSub(sub, s) ==
  Cardinality({i \in 1..(Len(s) - Len(sub) + 1) :
                 SubSeq(s, i, i + Len(sub) - 1) = sub})

\* The number of (mean, std) records in a file: a record is written as
\* mean, ', ', std, ', ' and nothing else of a file holds ', '.
Records(content) == CountSub(<<",", " ">>, content) \div 2

OutFile(name) == name \o DotOut

\* The last line read.
LastLine == report[Len(report)]

\* A step of the scan that reads the line.
Reads(line) ==
  /\ pc = "scan"
  /\ Len(report') = Len(report) + 1
  /\ report'[Len(report')] = line

----------------------------------------------------------------------------
(* C1 *)

\* C1: when main() has finished, the output files are exactly the files
\* '<name>.out' of the tally names of the report's primary header lines:
\* each such name has its file, and there is no file for any other name (a
\* continuation header's name included).
C1_OneFilePerPrimaryName ==
  pc = "done" =>
    DOMAIN files = {OutFile(NameAt(report, h)) : h \in PrimaryAt(report)}

\* main() has finished on a report with two primary headers of different
\* names and a continuation header.
C1_Witness ==
  /\ pc = "done"
  /\ Cardinality(DOMAIN files) = 2
  /\ \E i \in DOMAIN report : ContinuationLine(report[i])

----------------------------------------------------------------------------
(* C2 *)

\* C2: when main() has finished on a valid report, the file of every tally
\* holds as many (mean, std) records as there are result lines in the
\* tally's primary and continuation blocks: none is lost, none is doubled.
C2_OneRecordPerResultLine ==
  (pc = "done" /\ ValidReport(report)) =>
    \A h \in PrimaryAt(report) :
      Records(files[OutFile(NameAt(report, h))])
        = Cardinality(ResultsOf(report, h))

\* main() has finished on a valid report whose tally has a result line in
\* a continuation block, and the tally's file holds a record.
C2_Witness ==
  /\ pc = "done"
  /\ ValidReport(report)
  /\ \E h \in PrimaryAt(report) : \E c, i \in BlockOf(report, h) :
       /\ ContinuationLine(report[c])
       /\ c < i
       /\ ResultLine(report[i])
       /\ Records(files[OutFile(NameAt(report, h))]) >= 1

----------------------------------------------------------------------------
(* C3 *)

\* The last header line read is a continuation header.
InContinuation(r) ==
  \E c \in DOMAIN r :
    /\ ContinuationLine(r[c])
    /\ \A j \in DOMAIN r : j > c => ~Contains(TALLY, r[j])

\* C3: reading a continuation header, or any line of a continuation block,
\* opens, creates and closes nothing and leaves fout as it is, so fout is
\* still the stream that was open when the continuation header was read;
\* a Distributed Cell or result line of the block that raises no error adds
\* text at the end of that stream's file, and no other file changes.
C3_ContinuationAppends ==
  [][ (pc = "scan" /\ Len(report') = Len(report) + 1
       /\ InContinuation(report'))
      => /\ fout' = fout
         /\ open_streams' = open_streams
         /\ score_all' = score_all
         /\ DOMAIN files' = DOMAIN files
         /\ \A f \in DOMAIN files : f # fout.name => files'[f] = files[f]
         /\ (pc' = "scan" /\ ~Contains(TALLY, report'[Len(report')]))
              => /\ fout.bound /\ ~fout.closed
                 /\ Len(files'[fout.name]) > Len(files[fout.name])
                 /\ SubSeq(files'[fout.name], 1, Len(files[fout.name]))
                      = files[fout.name]
    ]_vars

\* The last primary header line of the report r.
LastPrimary(r) == CHOOSE h \in PrimaryAt(r) : \A g \in PrimaryAt(r) : g <= h

\* A result line of a continuation block has been written to the file the
\* primary header before it had opened.
C3_Witness ==
  /\ pc = "scan"
  /\ InContinuation(report)
  /\ ResultLine(LastLine)
  /\ PrimaryAt(report) # {}
  /\ fout.name = OutFile(NameAt(report, LastPrimary(report)))
  /\ Records(files[fout.name]) >= 1

----------------------------------------------------------------------------
(* C4 *)

\* C4: when main() has finished on a valid report, the file of a tally
\* with N >= 1 Distributed Cell lines in its blocks holds exactly N lines,
\* each ended by a newline, none blank, each with one label separator ': '
\* (one grid location per line).
C4_OneLinePerCell ==
  (pc = "done" /\ ValidReport(report)) =>
    \A h \in PrimaryAt(report) :
      LET rows == splitlines(files[OutFile(NameAt(report, h))]) IN
      Cardinality(CellsOf(report, h)) >= 1 =>
        /\ Len(rows) = Cardinality(CellsOf(report, h))
        /\ \A n \in DOMAIN rows :
             /\ rows[n][Len(rows[n])] = "\n"
             /\ rows[n] # <<"\n">>
             /\ CountSub(<<":", " ">>, rows[n]) = 1

\* main() has finished on a valid report with a tally of two grid
\* locations, one of them with a result.
C4_Witness ==
  /\ pc = "done"
  /\ ValidReport(report)
  /\ \E h \in PrimaryAt(report) :
       /\ Cardinality(CellsOf(report, h)) = 2
       /\ Cardinality(ResultsOf(report, h)) >= 1
----------------------------------------------------------------------------
(* C5 *)

\* The report of the scenario: the header, a Distributed Cell line of the
\* coordinate l21(4,0), which the table maps to A1, and the result line.
Scenario5 == <<TallyAbsorption, CellA1, RateLine>>

\* 'A1: 2.000000e+00, 4.000000e+00, '
Line5Claimed ==
  <<"A", "1", ":", " ", "2", ".", "0", "0", "0", "0", "0", "0", "e", "+",
  "0", "0", ",", " ", "4", ".", "0", "0", "0", "0", "0", "0", "e", "+",
  "0", "0", ",", " ">>

\* '1.000000e+00, 2.000000e+00, '
Record12 ==
  <<"1", ".", "0", "0", "0", "0", "0", "0", "e", "+", "0", "0", ",", " ",
  "2", ".", "0", "0", "0", "0", "0", "0", "e", "+", "0", "0", ",", " ">>

\* '5.000000e+00, 6.000000e+00, '
Record56 ==
  <<"5", ".", "0", "0", "0", "0", "0", "0", "e", "+", "0", "0", ",", " ",
  "6", ".", "0", "0", "0", "0", "0", "0", "e", "+", "0", "0", ",", " ">>

\* The text of a line after its first ': ', the whole line when it has none.
AfterLabel(line) ==
  LET at == {i \in 1..(Len(line) - 1) : line[i] = ":" /\ line[i + 1] = " "}
  IN  IF at = {} THEN line
      ELSE SubSeq(line, (CHOOSE i \in at : \A j \in at : i <= j) + 2, Len(line))

\* The label prefix of a line: its text before the first ': ', empty when
\* the line has none.
LabelPrefix(line) ==
  LET at == {i \in 1..(Len(line) - 1) : line[i] = ":" /\ line[i + 1] = " "}
  IN  IF at = {} THEN <<>>
      ELSE SubSeq(line, 1, (CHOOSE i \in at : \A j \in at : i <= j) - 1)

\* C5 as stated: on the scenario's report absorption_All.out holds the
\* single line 'A1: 2.000000e+00, 4.000000e+00, '.
C5_AsStated ==
  (pc = "done" /\ report = Scenario5) =>
    files[OutFile(NameAt(Scenario5, 1))]
      \in {Line5Claimed, Line5Claimed \o <<"\n">>}

\* C5 amended: on the scenario's report the mean is token[2] = '1.0' and
\* the std is token[4] = '2.0' of the result line (tokens counted from 0),
\* and absorption_All.out holds a single line, whose text after the label
\* separator ': ' is '1.000000e+00, 2.000000e+00, '.
C5_Amended ==
  (pc = "done" /\ report = Scenario5) =>
    LET rows == splitlines(files[OutFile(NameAt(Scenario5, 1))]) IN
    /\ split(RateLine)[3] = <<"1", ".", "0">>
    /\ split(RateLine)[5] = <<"2", ".", "0">>
    /\ Len(rows) = 1
    /\ AfterLabel(rows[1]) = Record12 \o <<"\n">>

\* main() has finished on the scenario's report.
C5_Witness == pc = "done" /\ report = Scenario5

----------------------------------------------------------------------------
(* C6 *)

\* C6 as stated: the line 'Flux +/- 5.0 +/- 6.0', read while a stream is
\* open, raises no error and its record is 5.000000e+00, 6.000000e+00.
C6_AsStated ==
  (report # <<>> /\ LastLine = FluxSignsLine /\ fout.bound) =>
    /\ pc # "error"
    /\ SubSeq(files[fout.name],
              Len(files[fout.name]) - Len(Record56) + 1,
              Len(files[fout.name])) = Record56

\* C6 amended: in the line 'Flux +/- 5.0 +/- 6.0' token[1] is '+/-', so
\* reading it ends main() in a ValueError with nothing written; it is the
\* line 'Flux 5.0 +/- 6.0' that, read while a stream is open, gives mean =
\* token[1] = 5.0 and std = token[3] = 6.0, written as 5.000000e+00 and
\* 6.000000e+00 without an error.
C6_Amended ==
  [][ /\ Reads(FluxSignsLine)
        => pc' = "error" /\ err' = "ValueError" /\ files' = files
      /\ (Reads(FluxLine56) /\ fout.bound /\ ~fout.closed)
        => /\ pc' = "scan"
           /\ files'[fout.name] = files[fout.name] \o Record56
    ]_vars

\* The line 'Flux +/- 5.0 +/- 6.0' has been read while a stream was open.
C6_Witness ==
  /\ report # <<>>
  /\ LastLine = FluxSignsLine
  /\ fout.bound /\ ~fout.closed
  /\ err = "ValueError"

----------------------------------------------------------------------------
(* C7 *)

\* The record the claim gives a result line: the 2nd and 4th token when the
\* first token is 'Flux', the 3rd and 5th otherwise, each as '%.6e'.
ClaimedRecord(line) ==
  LET val == split(line)
      mean == IF val[1] = Flux THEN val[2] ELSE val[3]
      std == IF val[1] = Flux THEN val[4] ELSE val[5]
  IN  FormatE(float(mean)) \o <<",", " ">>
      \o FormatE(float(std)) \o <<",", " ">>

\* C7: a result line that is read without an error adds to the open file
\* the record of its 2nd and 4th token when its first token is 'Flux', of
\* its 3rd and 5th token otherwise; so the flux line 'Flux 1.0 +/- 2.0' and
\* the reaction-rate line 'Absorption +/- 1.0 1.0 2.0 3.0 4.0', which carry
\* 1.0 and 2.0 at their offsets, add the same record.
C7_TokenOffsets ==
  [][ \A line \in Lines :
        (Reads(line) /\ ResultLine(line) /\ pc' = "scan")
          => /\ files'[fout.name] = files[fout.name] \o ClaimedRecord(line)
             /\ line \in {FluxLine, RateLine}
                  => files'[fout.name] = files[fout.name] \o Record12
    ]_vars

\* A flux line and a reaction-rate line have both been read without error.
C7_Witness ==
  /\ pc = "scan"
  /\ \E i, j \in DOMAIN report : report[i] = FluxLine /\ report[j] = RateLine

----------------------------------------------------------------------------
(* C8 *)

\* The keys of the table that occur in the line.
KeysIn(line) == {n \in DOMAIN dc : Contains(dc[n][1], line)}

\* C8 as stated: after a Distributed Cell line with exactly one key of the
\* table in it has been read, the open file ends with a new line that
\* starts with the label the table gives that key.
C8_LabelOfTheOneKey ==
  (pc = "scan" /\ report # <<>> /\ CellLine(LastLine)
   /\ Cardinality(KeysIn(LastLine)) = 1) =>
    LET written == <<"\n">> \o dc[CHOOSE n \in KeysIn(LastLine) : TRUE][2]
                   \o <<":", " ">>
        content == files[fout.name]
    IN  /\ Len(content) >= Len(written)
        /\ SubSeq(content, Len(content) - Len(written) + 1, Len(content))
             = written

----------------------------------------------------------------------------
(* C9 *)

StrLeq(a, b) == a = b \/ StrLess(a, b)

\* The labels of the table.
TableLabels == {dc[n][2] : n \in DOMAIN dc}

\* For the labels of the table, the order of whole lines is the order of
\* their labels, whatever follows the label separator.
LinesOrderLikeLabels ==
  \A a, b \in TableLabels : \A p, q \in {<<>>, <<"0">>, <<"9">>} :
    StrLess(a, b) => StrLess(a \o <<":", " ">> \o p, b \o <<":", " ">> \o q)

\* C9: when main() has finished, the lines of every output file are in
\* ascending order of their label prefix, in whatever order the report
\* gave the grid locations; and for the labels of the table sorting whole
\* lines is sorting by label.
C9_SortedByLabel ==
  /\ LinesOrderLikeLabels
  /\ pc = "done" =>
       \A f \in DOMAIN files :
         LET rows == splitlines(files[f]) IN
         \A n \in 1..(Len(rows) - 1) :
           StrLeq(LabelPrefix(rows[n]), LabelPrefix(rows[n + 1]))

\* main() has finished on a report that gives the location of the greater
\* label first, and the file holds both lines.
C9_Witness ==
  /\ pc = "done"
  /\ \E i, j \in DOMAIN report :
       i < j /\ report[i] = CellLastKey /\ report[j] = CellA1
       /\ \A h \in PrimaryAt(report) : h < i
  /\ \E f \in DOMAIN files : Len(splitlines(files[f])) = 2

----------------------------------------------------------------------------
(* C10 *)

\* C10: running the sort pass again on the files main() has left changes
\* no file.
C10_SortIdempotent ==
  [][ (pc = "done" /\ pc' = "resorted") => files' = files ]_vars

\* The sort pass has run again on a file of two lines that the report gave
\* in descending order.
C10_Witness ==
  /\ pc = "resorted"
  /\ \E i, j \in DOMAIN report :
       i < j /\ report[i] = CellLastKey /\ report[j] = CellA1
       /\ \A h \in PrimaryAt(report) : h < i
  /\ \E f \in DOMAIN files : Len(splitlines(files[f])) = 2

----------------------------------------------------------------------------
(* C11 *)

\* A number in scientific notation with exactly six digits after the point:
\* an optional '-', one digit, '.', six digits, 'e', a sign, and two or more
\* exponent digits.
SciSix(txt) ==
  LET body == IF txt # <<>> /\ txt[1] = "-" THEN Tail(txt) ELSE txt IN
  /\ Len(body) >= 12
  /\ IsDigit(body[1])
  /\ body[2] = "."
  /\ \A i \in 3..8 : IsDigit(body[i])
  /\ body[9] = "e"
  /\ body[10] \in {"+", "-"}
  /\ \A i \in 11..Len(body) : IsDigit(body[i])

\* The number txt, a SciSix text, is the value of the token tok rounded to
\* seven significant digits: they differ by at most half a unit of the last
\* digit of txt.
NearestTo(txt, tok) ==
  LET o == float(txt)
      v == float(tok)
      c == IF v.exp < o.exp THEN v.exp ELSE o.exp
      a == v.mant * 10 ^ (v.exp - c)
      b == o.mant * 10 ^ (o.exp - c)
      d == IF a < b THEN b - a ELSE a - b
  IN  o.neg = v.neg /\ 2 * d <= 10 ^ (o.exp - c)

\* What a step has added to the file of the open stream.
Added ==
  SubSeq(files'[fout.name], Len(files[fout.name]) + 1,
         Len(files'[fout.name]))

\* The n-th field of the record a step has added: the text before its ','.
Field(n) ==
  LET part == split(Added)[n] IN SubSeq(part, 1, Len(part) - 1)

\* The step has added one record 'mean, std, ' and nothing else.
AddedOneRecord ==
  /\ Len(split(Added)) = 2
  /\ \A n \in 1..2 : split(Added)[n][Len(split(Added)[n])] = ","
  /\ Added = Field(1) \o <<",", " ">> \o Field(2) \o <<",", " ">>

\* A step of the scan that reads a result line 'Flux <mean> +/- <std>'
\* without an error.
ReadsFluxLine ==
  /\ pc = "scan"
  /\ pc' = "scan"
  /\ Len(report') = Len(report) + 1
  /\ ResultLine(report'[Len(report')])
  /\ split(report'[Len(report')])[1] = Flux

\* The mean and std tokens of the line that step reads.
MeanToken == split(report'[Len(report')])[2]

StdToken == split(report'[Len(report')])[4]

\* The tokens that are not the literal of a finite double: an infinity, a
\* nan, a literal above the largest double, and what is no number at all.
NotFinite == {TokInf, TokNan, TokOverflow, TokSigns}

\* C11 as stated: every mean and standard deviation written to an output
\* file is the value of its token in scientific notation with exactly six
\* digits after the point.
C11_AsStated ==
  [][ ReadsFluxLine
        => /\ AddedOneRecord
           /\ SciSix(Field(1)) /\ NearestTo(Field(1), MeanToken)
           /\ SciSix(Field(2)) /\ NearestTo(Field(2), StdToken)
    ]_vars

\* What '%.6e' writes for a token that float() reads as an infinity or a
\* nan.
SpecialText(tok) ==
  IF tok = TokNan THEN <<"n", "a", "n">> ELSE <<"i", "n", "f">>

\* The field written for the token is its value in scientific notation
\* with six digits after the point when the token is the literal of a
\* finite double, and 'inf' or 'nan' when it is an infinity or a nan.
WrittenAs(txt, tok) ==
  IF tok \in NotFinite THEN txt = SpecialText(tok)
  ELSE SciSix(txt) /\ NearestTo(txt, tok)

\* C11 amended: every mean and standard deviation written to an output
\* file for a token that is the literal of a finite double is the value of
\* the token, rounded to seven significant digits, in scientific notation
\* with exactly six digits after the point; a token that float() reads as
\* an infinity or a nan is written as 'inf' or 'nan', without digits.
C11_Amended ==
  [][ ReadsFluxLine
        => /\ AddedOneRecord
           /\ WrittenAs(Field(1), MeanToken)
           /\ WrittenAs(Field(2), StdToken)
    ]_vars

\* A result line whose mean is rounded up into the next power of ten and
\* whose std has more than seven digits has been read and written.
C11_Witness ==
  /\ pc = "scan"
  /\ Len(report) = 3
  /\ report[3] = FluxOf(TokCarry, TokSmall)
  /\ CountSub(<<"1", ".", "0", "0", "0", "0", "0", "0", "e", "+", "0", "1">>,
              files[fout.name]) = 1

----------------------------------------------------------------------------
(* C12 *)

\* C12: when tallies.out is missing or cannot be opened, main() ends at
\* once in that error, and no output file has been created, truncated or
\* modified: the directory is as it was when main() was started, no stream
\* is open, and nothing happens after the error.
C12_OpenFailureTouchesNothing ==
  [][ /\ pc # "error"
      /\ (pc = "open" /\ pc' # "scan")
           => /\ pc' = "error"
              /\ err' \in {"FileNotFoundError", "PermissionError"}
              /\ files' = files
              /\ open_streams' = <<>>
              /\ score_all' = <<>>
    ]_vars

\* main() has ended in FileNotFoundError in a directory that holds a file
\* of an earlier run.
C12_Witness ==
  /\ pc = "error"
  /\ err = "FileNotFoundError"
  /\ report = <<>>
  /\ DOMAIN files # {}
  /\ \A f \in DOMAIN files : files[f] = LeftoverContent

----------------------------------------------------------------------------
(* C13 *)

\* The entries the table is said to have for the lattice name lat of an
\* n x n lattice: key lat(i,j) for 0 <= i, j < n, value the i-th of the
\* row letters followed by j+1 and the suffix.
EntriesFor(lat, n, letters, suffix) ==
  { << lat \o <<"(">> \o <<Digits[i + 1]>> \o <<",">> \o <<Digits[j + 1]>>
         \o <<")">>,
       <<letters[i + 1]>> \o <<Digits[j + 2]>> \o suffix >> :
      i \in 0..(n - 1), j \in 0..(n - 1) }

\* C13: once built, the table maps l21(i,j), 0 <= i, j < 5, to the i-th of
\* E, D, C, B, A followed by j+1; l330(i,j), l331(i,j) and l402(i,j),
\* 0 <= i, j < 4, to the i-th of D, C, B, A followed by j+1; l6(i,j),
\* 0 <= i, j < 4, to the i-th of D, C, B, A followed by j+1 and an
\* underscore; and it has no other entries.
C13_TableContents ==
  pc # "build" =>
    {table[n] : n \in DOMAIN table}
      = EntriesFor(<<"l", "2", "1">>, 5, <<"E", "D", "C", "B", "A">>, <<>>)
        \cup EntriesFor(<<"l", "3", "3", "0">>, 4, <<"D", "C", "B", "A">>, <<>>)
        \cup EntriesFor(<<"l", "3", "3", "1">>, 4, <<"D", "C", "B", "A">>, <<>>)
        \cup EntriesFor(<<"l", "4", "0", "2">>, 4, <<"D", "C", "B", "A">>, <<>>)
        \cup EntriesFor(<<"l", "6">>, 4, <<"D", "C", "B", "A">>, <<"_">>)

\* The table has been built and looked up: the line of l6(3,3) has been
\* read, and the table holds 'A4_' for that key and 'E1' for l21(0,0).
C13_Witness ==
  /\ pc = "scan"
  /\ Len(report) >= 2
  /\ LastLine = CellLastKey
  /\ DictGet(table, <<"l", "6", "(", "3", ",", "3", ")">>) = <<"A", "4", "_">>
  /\ DictGet(table, <<"l", "2", "1", "(", "0", ",", "0", ")">>) = <<"E", "1">>

----------------------------------------------------------------------------
(* C14 *)

\* C14: while the table is built every assignment is to a key that is not
\* yet in it, no entry is overwritten: each of the 25 + 48 + 16 = 89
\* assignments adds an entry and leaves the others as they are, so the
\* table ends with 89 entries and a key never has two.
C14_KeysDistinct ==
  [][ /\ pc = "build"
           => /\ Len(table') = Len(table) + 1
              /\ SubSeq(table', 1, Len(table)) = table
              /\ \A m, n \in DOMAIN table' :
                   m # n => table'[m][1] # table'[n][1]
      /\ (pc = "build" /\ pc' # "build")
           => /\ Len(table') = 89
              /\ Len(LoopNest(lat_5x5, rows_5x5, 5, <<>>)) = 25
              /\ Len(LoopNest(lat_4x4, rows_4x4, 4, <<>>)) = 48
              /\ Len(LoopNest(qtr_core_4x4, rows_4x4, 4, <<"_">>)) = 16
    ]_vars

\* The table has been built and the line of l21(4,0) has been read: the
\* coordinate in it is the key of one entry.
C14_Witness ==
  /\ pc = "scan"
  /\ Len(report) >= 2
  /\ LastLine = CellA1
  /\ Len(table) = 89
  /\ Cardinality({p \in DOMAIN table :
                    table[p][1] = <<"l", "2", "1", "(", "4", ",", "0", ")">>}) = 1

----------------------------------------------------------------------------
(* C15 *)

\* C15: in every state of the scan at most one output stream is open, the
\* stream fout when there is one; and in every state of the two post-passes
\* at most one file is open, the file the loop stands at.
C15_AtMostOneOpen ==
  /\ Len(open_streams) <= 1
  /\ (pc = "scan" /\ open_streams # <<>>)
       => /\ fout.bound /\ ~fout.closed
          /\ open_streams = <<fout.name>>
  /\ (pc \in {"strip", "strip_read", "strip_reopen", "strip_write",
              "sort", "sort_read", "sort_reopen", "sort_write"}
      /\ open_streams # <<>>)
       => open_streams = <<PassFile>>

\* The second post-pass has opened the file of the second of two tallies
\* for writing: the scan has opened two streams one after the other, the
\* first post-pass has gone over both files, and one file is open now.
C15_Witness ==
  /\ pc = "sort_write"
  /\ Len(score_all) = 2
  /\ k = 2
  /\ score_all[1] # score_all[2]
  /\ open_streams = <<PassFile>>

----------------------------------------------------------------------------
(* C16 *)

\* C16: in the scan, reading a primary header line opens the stream of its
\* tally, on a file that is empty then, and leaves it the only open
\* stream, the stream open before being closed in the same step; reading
\* any other line opens nothing: fout and the open streams stay as they
\* are and no file is created or truncated; and at the end of the input
\* the stream that is open is closed, no stream being open afterwards.
C16_OpenedOnPrimaryHeaders ==
  [][ /\ \A line \in Lines :
           (Reads(line) /\ pc' = "scan") =>
             IF PrimaryLine(line)
             THEN /\ fout'.bound /\ ~fout'.closed
                  /\ fout'.name = OutFile(split(line)[4])
                  /\ open_streams' = <<fout'.name>>
                  /\ files'[fout'.name] = <<>>
                  /\ score_all' = Append(score_all, split(line)[4])
             ELSE /\ fout' = fout
                  /\ open_streams' = open_streams
                  /\ score_all' = score_all
                  /\ DOMAIN files' = DOMAIN files
                  /\ \A f \in DOMAIN files : Len(files'[f]) >= Len(files[f])
      /\ (pc = "scan" /\ pc' = "strip")
           => /\ open_streams = <<fout.name>>
              /\ open_streams' = <<>>
              /\ fout'.closed
      /\ (pc = "scan" /\ pc' # "scan" /\ report' = report
          /\ open_streams # <<>>)
           => pc' = "strip"
    ]_vars

\* The input has ended after two primary headers with a Distributed Cell
\* line between them: two streams were opened one after the other, and the
\* second one has been closed at the end of the input.
C16_Witness ==
  /\ pc = "strip"
  /\ k = 1
  /\ report = <<TallyAbsorption, CellA1, TallyFlux>>
  /\ score_all = <<split(TallyAbsorption)[4], split(TallyFlux)[4]>>
  /\ fout.closed
  /\ open_streams = <<>>

----------------------------------------------------------------------------
(* C17 *)

\* C17 as stated: each post-pass goes over a quantity file exactly once,
\* also when the name of its tally stands in more than one primary header
\* line, and only after the scan is over and its last stream is closed: a
\* pass that opens a file has not opened it before, no stream is open and
\* fout is closed when it does, and when main() finishes every file has
\* been gone over.
C17_NormalizedOnce ==
  [][ /\ (pc \in {"strip", "sort"} /\ pc' \in {"strip_read", "sort_read"})
           => /\ \A j \in 1..(k - 1) : score_all[j] # score_all[k]
              /\ open_streams = <<>>
              /\ fout.closed
      /\ (pc # "done" /\ pc' = "done")
           => \A f \in DOMAIN files :
                \E j \in DOMAIN score_all : f = OutFile(score_all[j])
    ]_vars

----------------------------------------------------------------------------
(* C18 *)

\* C18 as stated: the first post-pass ends in an error when the file it has
\* opened is empty, that is when the primary header of the tally was
\* followed by no Distributed Cell line and no result line.
C18_EmptyFileFails ==
  [][ (pc = "strip_read" /\ files[PassFile] = <<>>) => pc' = "error" ]_vars

----------------------------------------------------------------------------
(* C19 *)

\* The positions of the Distributed Cell lines of the block the report r
\* ends in: those after its last primary header line.
CellsOfLastBlock(r) ==
  IF PrimaryAt(r) = {} THEN {} ELSE CellsOf(r, LastPrimary(r))

\* The most recently read Distributed Cell line of that block.
RecentCell(r) ==
  CHOOSE j \in CellsOfLastBlock(r) : \A i \in CellsOfLastBlock(r) : i <= j

\* The label the table gives the one coordinate in a Distributed Cell line.
TableLabel(line) == dc[CHOOSE n \in KeysIn(line) : TRUE][2]

\* The text of the last line of a file: what follows its last newline.
LastLineOf(content) ==
  LET nl == {i \in DOMAIN content : content[i] = "\n"}
      last == IF nl = {} THEN 0 ELSE CHOOSE i \in nl : \A j \in nl : j <= i
  IN  SubSeq(content, last + 1, Len(content))

\* The records of the result lines of r after position j, in report order.
RecordsAfter(r, j) ==
  LET cat[m \in j..Len(r)] ==
        IF m = j THEN <<>>
        ELSE cat[m - 1]
             \o (IF ResultLine(r[m]) THEN ClaimedRecord(r[m]) ELSE <<>>)
  IN  cat[Len(r)]

\* C19 as stated: when a result line has been read, the line of the output
\* file its record is on starts with the label of the most recently read
\* Distributed Cell line of the block, the label the table gives the
\* coordinate in that line, and holds after it the records of the result
\* lines read since that line, in the order of the report.
C19_OnTheLineOfItsCell ==
  [][ \A line \in Lines :
        (Reads(line) /\ ResultLine(line) /\ pc' = "scan"
         /\ CellsOfLastBlock(report') # {})
          => LET j == RecentCell(report') IN
             Cardinality(KeysIn(report'[j])) = 1
               => LastLineOf(files'[fout'.name])
                    = TableLabel(report'[j]) \o <<":", " ">>
                      \o RecordsAfter(report', j)
    ]_vars

----------------------------------------------------------------------------
(* C20 *)

\* C20 as stated: a result line read before any header line, or after a
\* primary header line and before any Distributed Cell line of its block,
\* ends main() in an error; its record is neither written nor dropped
\* silently.
C20_ResultWithoutCellFails ==
  [][ \A line \in Lines :
        (Reads(line) /\ ResultLine(line) /\ CellsOfLastBlock(report) = {})
          => pc' = "error"
    ]_vars

----------------------------------------------------------------------------
(* C21 *)

\* The label computed in the final iteration of the loop over the keys of
\* the table: that of the last key when it is in the line, empty otherwise.
FinalIterationLabel(line) ==
  IF Contains(table[Len(table)][1], line) THEN table[Len(table)][2]
  ELSE <<>>

\* C21: a Distributed Cell line that holds no key of the table, or more than
\* one, read while a stream is open, raises no error: the scan goes on, a
\* new line is started in the open file, and the label written on it is
\* the one computed in the final iteration of the loop over the keys,
\* empty when the key of that iteration is not in the line.
C21_NoOrManyKeys ==
  [][ \A line \in OddLines :
        (Reads(line) /\ CellLine(line) /\ Cardinality(KeysIn(line)) # 1
         /\ fout.bound /\ ~fout.closed)
          => /\ pc' = "scan" /\ err' = "none"
             /\ fout' = fout /\ open_streams' = open_streams
             /\ Added = <<"\n">> \o FinalIterationLabel(line) \o <<":", " ">>
    ]_vars

\* A line without a key, a line with two keys, and a line with two keys of
\* which one is the last key of the table have been read after a header:
\* the file holds two lines with an empty label and one labelled 'A4_'.
C21_Witness ==
  /\ pc = "scan"
  /\ report = <<TallyFlux, CellNoKey, CellTwoKeys, CellTwoKeysLast>>
  /\ KeysIn(CellNoKey) = {}
  /\ Cardinality(KeysIn(CellTwoKeys)) = 2
  /\ Cardinality(KeysIn(CellTwoKeysLast)) = 2
  /\ files[fout.name]
       = <<"\n", ":", " ", "\n", ":", " ", "\n", "A", "4", "_", ":", " ">>

----------------------------------------------------------------------------
(* C22 *)

\* The label of the last key, in the order the table enumerates its keys,
\* that is in the line.
LastMatchLabel(line) ==
  table[CHOOSE n \in KeysIn(line) : \A m \in KeysIn(line) : m <= n][2]

\* C22 as stated: a Distributed Cell line that holds more than one key of
\* the table, read while a stream is open, starts a line whose label is
\* that of the last of those keys in the order the table enumerates them.
C22_LastMatchWins ==
  [][ \A line \in OddLines :
        (Reads(line) /\ CellLine(line) /\ Cardinality(KeysIn(line)) > 1
         /\ fout.bound /\ ~fout.closed)
          => Added = <<"\n">> \o LastMatchLabel(line) \o <<":", " ">>
    ]_vars

----------------------------------------------------------------------------
(* C23 *)

\* C23: a line that holds 'TALLY' and, anywhere, '_2' is taken for a
\* continuation header, also when it is the primary header of a tally
\* whose own name holds '_2' ('TALLY 4 2 nu_238'): reading it records no
\* name, creates and truncates no file and leaves fout as it is; the lines
\* read after it add their text to the file of the stream opened before;
\* and no file of its name ever exists.
C23_SubstringContinuation ==
  [][ /\ \A line \in OddLines :
           (Reads(line) /\ Contains(TALLY, line) /\ Contains(US2, line))
             => /\ pc' = "scan"
                /\ score_all' = score_all
                /\ fout' = fout
                /\ open_streams' = open_streams
                /\ files' = files
      /\ \A line \in OddLines :
           (Reads(line) /\ pc' = "scan" /\ report # <<>>
            /\ Contains(US2, LastLine) /\ (CellLine(line) \/ ResultLine(line)))
             => /\ fout' = fout
                /\ fout.name = OutFile(score_all[Len(score_all)])
                /\ DOMAIN files' = DOMAIN files
                /\ Len(files'[fout.name]) > Len(files[fout.name])
                /\ \A f \in DOMAIN files \ {fout.name} : files'[f] = files[f]
      /\ OutFile(split(TallyNu238)[4]) \notin DOMAIN files'
    ]_vars

\* main() has finished on a report in which the header of the tally nu_238
\* follows that of flux_All: the only file is flux_All.out, and it holds
\* the record that was read after the header of nu_238.
C23_Witness ==
  /\ pc = "done"
  /\ report = <<TallyFlux, TallyNu238, CellTwoKeysLast, FluxLine>>
  /\ score_all = <<split(TallyFlux)[4]>>
  /\ DOMAIN files = {OutFile(split(TallyFlux)[4])}
  /\ Records(files[OutFile(split(TallyFlux)[4])]) = 1

----------------------------------------------------------------------------
(* C24 *)

\* C24: on every report main() either ends in an error or goes all the
\* way: the scan ends, and once the first post-pass has begun both
\* post-passes go over the files and main() is done. Then no stream is
\* open, the lines read are the report, at most MaxLines of them, and every
\* file the scan has created is the file of a score both loops have gone
\* over, with the last line terminated and the lines in order.
C24_ReachesTerminalState ==
  /\ (pc = "open") ~> (pc \in {"strip", "error"})
  /\ (pc = "strip") ~> (pc = "done")
  /\ [](pc = "done" =>
          /\ err = "none"
          /\ open_streams = <<>>
          /\ fout.closed
          /\ Len(report) <= MaxLines
          /\ k = Len(score_all)
          /\ \A f \in DOMAIN files :
               /\ \E j \in DOMAIN score_all : f = OutFile(score_all[j])
               /\ files[f][Len(files[f])] = "\n"
               /\ files[f] = SortFile(splitlines(files[f])))

\* main() is done on a report of two tallies: both files have gone through
\* the two post-passes and no stream is open.
C24_Witness ==
  /\ pc = "done"
  /\ report = <<TallyAbsorption, CellA1, TallyFlux, CellLastKey>>
  /\ k = 2
  /\ open_streams = <<>>
  /\ Cardinality(DOMAIN files) = 2

----------------------------------------------------------------------------
(* C25 *)

\* C25 as stated: when the end of a report that holds no primary header
\* line is reached, line 61 completes without error, and no stream has been
\* opened and no output file created.
C25_NoHeaderEndsCleanly ==
  [][ (pc = "scan" /\ report' = report /\ PrimaryAt(report) = {})
        => /\ err' = "none"
           /\ pc' # "error"
           /\ files' = <<>>
           /\ open_streams' = <<>>
    ]_vars

----------------------------------------------------------------------------
(* C26 *)

\* The tally name of the last header line of the report r without its
\* final '_2'.
BaseNameOfLastHeader(r) ==
  LET c == CHOOSE i \in DOMAIN r :
             Contains(TALLY, r[i]) /\ \A j \in DOMAIN r : j > i => ~Contains(TALLY, r[j])
      name == split(r[c])[4]
  IN  SubSeq(name, 1, Len(name) - 2)

\* C26: while the scan is in a continuation block, the stream written to
\* is the one the most recent primary header line has opened, whatever the
\* name on the continuation header, and that file holds one record for each
\* result line read since that primary header, those of the continuation
\* block included; the continuation header has created no file.
C26_ContinuationGoesToLastPrimary ==
  (pc = "scan" /\ InContinuation(report) /\ PrimaryAt(report) # {}) =>
    LET h == LastPrimary(report) IN
    /\ fout.bound /\ ~fout.closed
    /\ fout.name = OutFile(NameAt(report, h))
    /\ open_streams = <<fout.name>>
    /\ Records(files[fout.name]) = Cardinality(ResultsOf(report, h))
    /\ DOMAIN files = {OutFile(NameAt(report, g)) : g \in PrimaryAt(report)}

\* A result line has been read in a continuation block whose header names
\* another tally than the primary header before it: its record is in the
\* file of that primary header, and the other tally has no file.
C26_Witness ==
  /\ pc = "scan"
  /\ InContinuation(report)
  /\ PrimaryAt(report) # {}
  /\ ResultLine(LastLine)
  /\ BaseNameOfLastHeader(report) # NameAt(report, LastPrimary(report))
  /\ Records(files[OutFile(NameAt(report, LastPrimary(report)))]) = 1
  /\ OutFile(BaseNameOfLastHeader(report)) \notin DOMAIN files

----------------------------------------------------------------------------
(* C27 *)

\* The primary header at h is the last one of its tally name in the report
\* r, and there is one of that name before it.
LastOfRepeatedName(r, h) ==
  /\ \E g \in PrimaryAt(r) : g < h /\ NameAt(r, g) = NameAt(r, h)
  /\ \A g \in PrimaryAt(r) : g > h => NameAt(r, g) # NameAt(r, h)

\* C27: during the scan and at its end, the file of a tally name that has
\* several primary header lines holds what the block of the last of them
\* has written and nothing else: it is empty when that header has just been
\* read, and it has one line start per Distributed Cell line and one record
\* per result line of that block.
C27_TruncatedOnReopen ==
  (pc = "scan" \/ (pc = "strip" /\ k = 1)) =>
    \A h \in PrimaryAt(report) :
      LastOfRepeatedName(report, h) =>
        LET f == OutFile(NameAt(report, h)) IN
        /\ f \in DOMAIN files
        /\ h = Len(report) => files[f] = <<>>
        /\ CountSub(<<"\n">>, files[f]) = Cardinality(CellsOf(report, h))
        /\ Records(files[f]) = Cardinality(ResultsOf(report, h))

\* The scan has ended on a report whose last line is the second primary
\* header of a tally, the first one being followed by a Distributed Cell
\* line and a result line: the file is empty.
C27_Witness ==
  /\ pc = "strip"
  /\ k = 1
  /\ report = <<TallyFlux, CellLastKey, FluxLine, TallyFlux>>
  /\ files[OutFile(split(TallyFlux)[4])] = <<>>

----------------------------------------------------------------------------
(* C28 *)

\* The primary header at h is the last one of its tally name in r.
LastOfName(r, h) ==
  \A g \in PrimaryAt(r) : g > h => NameAt(r, g) # NameAt(r, h)

\* The position of the i-th Distributed Cell line of the block of h.
NthCell(r, h, i) ==
  CHOOSE c \in CellsOf(r, h) :
    Cardinality({d \in CellsOf(r, h) : d <= c}) = i

StartsWith(s, prefix) ==
  Len(s) >= Len(prefix) /\ SubSeq(s, 1, Len(prefix)) = prefix

\* The files are as the scan of the report r has written them, no
\* post-pass having touched them: the file of a tally name starts with the
\* line that ends at the first newline written, a line follows for each
\* Distributed Cell line of the last block of that name, in the order of the
\* report and with the label of that line, every record of the block is
\* there, and no newline ends the file.
FilesAsScanned(r) ==
  \A h \in PrimaryAt(r) :
    LastOfName(r, h) =>
      LET f == OutFile(NameAt(r, h))
          n == Cardinality(CellsOf(r, h))
      IN  /\ f \in DOMAIN files
          /\ files[f] # <<>> => files[f][Len(files[f])] # "\n"
          /\ Records(files[f]) = Cardinality(ResultsOf(r, h))
          /\ n > 0 =>
                LET rows == splitlines(files[f]) IN
                /\ Len(rows) = n + 1
                /\ rows[1][Len(rows[1])] = "\n"
                /\ Records(rows[1])
                     = Cardinality({i \in ResultsOf(r, h) : i < NthCell(r, h, 1)})
                /\ \A i \in 1..n :
                     StartsWith(rows[i + 1],
                       FinalIterationLabel(r[NthCell(r, h, i)]) \o <<":", " ">>)

\* main() has stopped on the error the last line read has raised: no
\* post-pass has begun, the files are as the scan of the lines before it
\* has written them, and the stream that was open is still open.
AbortedScan ==
  LET r == SubSeq(report, 1, Len(report) - 1) IN
  /\ k = 0
  /\ data = <<>>
  /\ fout.bound => ~fout.closed /\ open_streams = <<fout.name>>
  /\ ~fout.bound => open_streams = <<>> /\ files = <<>>
  /\ DOMAIN files = {OutFile(NameAt(r, h)) : h \in PrimaryAt(r)}
  /\ FilesAsScanned(r)

\* C28: a line of the scan that raises an error ends main() there. No
\* step follows, so neither post-pass runs and nothing is closed, and the
\* state main() has stopped in is that of an aborted scan.
C28_AbortedScanRunsNoPostPass ==
  /\ [][pc # "error"]_vars
  /\ []((pc = "error" /\ report # <<>>
         /\ err \in {"IndexError", "ValueError", "UnboundLocalError"})
          => AbortedScan)

\* The scan has stopped on 'Flux 1.0 +/-' after a header and two
\* Distributed Cell lines: the file starts with the empty line, its lines
\* are in the order of the report and not sorted, and the stream is open.
C28_Witness ==
  /\ pc = "error"
  /\ err = "IndexError"
  /\ report = <<TallyFlux, CellTwoKeysLast, CellNoKey, FluxShort>>
  /\ open_streams = <<OutFile(split(TallyFlux)[4])>>
  /\ files[OutFile(split(TallyFlux)[4])]
       = <<"\n", "A", "4", "_", ":", " ", "\n", ":", " ">>
  /\ files[OutFile(split(TallyFlux)[4])]
       # SortFile(splitlines(files[OutFile(split(TallyFlux)[4])]))

----------------------------------------------------------------------------
(* C29 *)

\* The entries of the table whose key is in the text.
EntriesIn(text) == {n \in DOMAIN table : Contains(table[n][1], text)}

\* C29: in the table as built, no key is a part of another key, so a line
\* that holds the text of one key holds no second key because of it; and
\* two keys found in a Distributed Cell line of the report are never one
\* inside the other.
C29_NoKeyInsideAnother ==
  /\ pc = "open" =>
        \A n \in DOMAIN table :
          /\ EntriesIn(table[n][1]) = {n}
          /\ EntriesIn(DistributedCell \o <<" ">> \o table[n][1] \o <<" ">>) = {n}
  /\ (pc = "scan" /\ report # <<>> /\ CellLine(LastLine)) =>
        \A m, n \in EntriesIn(LastLine) :
          m # n => ~Contains(table[m][1], table[n][1])

\* The table has been built and the line of l6(3,3) has been read: of the
\* 89 keys that one alone is in the line.
C29_Witness ==
  /\ pc = "scan"
  /\ Len(table) = 89
  /\ report # <<>>
  /\ LastLine = CellLastKey
  /\ Cardinality(EntriesIn(LastLine)) = 1
  /\ \A n \in EntriesIn(LastLine) : table[n][1] = <<"l", "6", "(", "3", ",", "3", ")">>

====
